---- MODULE Spec2Model ----
(***************************************************************************)
(* Heartbeat monitor (src/main.cpp): one server process whose accept loop  *)
(* spawns a detached handler thread per connection, each handler doing one *)
(* read and one mutex-protected append to log.txt, and client processes    *)
(* that send "<timestamp> <name>" on a fresh socket every period.          *)
(*                                                                         *)
(* Bytes are natural numbers (character codes).  A string is kept          *)
(* run-length encoded: a sequence of runs <<c, n>>, n >= 1 copies of       *)
(* character c, adjacent runs holding different characters, so that equal  *)
(* strings have equal encodings.  Process 0 is started with a server       *)
(* command line, process 1 with a client command line.                     *)
(***************************************************************************)
EXTENDS Integers, Sequences, FiniteSets, TLC

(* ------------------------------ bounds -------------------------------- *)
MaxSock == 2
MaxTicks == 1
\* the instant the run begins, milliseconds after local midnight (10:20:30.123)
StartTime == 37230 * 1000 + 123

(* --------------------------- program constants ------------------------ *)
BufSize == 1024
Backlog == 10
NUL == 0
NL == 10
SP == 32
IntMax == 2147483647
U16 == 65536

ServerProc == 0
Clients == {1}
Procs == {ServerProc} \cup Clients
Socks == 1..MaxSock
TickSteps == {1000}

(* ------------------------------ strings ------------------------------- *)
\* n copies of character c
Run(c, n) == IF n > 0 THEN << <<c, n>> >> ELSE <<>>

\* concatenation of two encodings
Concat(a, b) ==
    IF a = <<>> THEN b
    ELSE IF b = <<>> THEN a
    ELSE IF a[Len(a)][1] = b[1][1]
         THEN SubSeq(a, 1, Len(a) - 1)
              \o << <<b[1][1], a[Len(a)][2] + b[1][2]>> >> \o Tail(b)
         ELSE a \o b

\* concatenation; the singleton sets have each argument evaluated once
Cat(x, y) == CHOOSE r \in { Concat(a, b) : a \in {x}, b \in {y} } : TRUE

\* the string of a tuple of character codes
RECURSIVE Str(_)
Str(t) ==
    IF t = <<>> THEN <<>>
    ELSE Cat(Str(SubSeq(t, 1, Len(t) - 1)), Run(t[Len(t)], 1))

\* the tuple of character codes of a string
RECURSIVE Chars(_)
Chars(s) ==
    IF s = <<>> THEN <<>>
    ELSE [i \in 1..s[1][2] |-> s[1][1]] \o Chars(Tail(s))

\* length
RECURSIVE SLen(_)
SLen(s) == IF s = <<>> THEN 0 ELSE s[1][2] + SLen(Tail(s))

\* the first n characters
RECURSIVE Take(_, _)
Take(s, n) ==
    IF n <= 0 \/ s = <<>> THEN <<>>
    ELSE IF s[1][2] >= n THEN << <<s[1][1], n>> >>
    ELSE <<s[1]>> \o Take(Tail(s), n - s[1][2])

S_prog == Str(<<112>>)
S_server == Str(<<115, 101, 114, 118, 101, 114>>)
S_client == Str(<<99, 108, 105, 101, 110, 116>>)
S_port == Str(<<56, 48, 56, 48>>)
S_one == Str(<<49>>)
S_alice == Str(<<97>>)
\* a 1000-character name: with the 23-character timestamp and the separating
\* space the message is BufSize bytes long
S_long1000 == Run(120, BufSize - 24)

ServerArgVs ==
    { <<S_prog, S_server, S_port>>,
      <<S_prog, S_server>>,
      <<S_prog, S_server, S_port, S_one>>,
      <<S_prog, S_server, S_alice>>,
      <<S_prog, S_alice, S_port>>,
      <<S_prog>> }

ClientArgVs ==
    { <<S_prog, S_client, S_alice, S_port, S_one>>,
      <<S_prog, S_client, S_long1000, S_port, S_one>>,
      <<S_prog, S_client, S_alice, S_port>>,
      <<S_prog, S_client, S_alice, S_port, S_one, S_one>> }

\* bytes that may lie in memory behind the handler's buffer
Stray == { <<>>, Str(<<88>>), Str(<<88, NL, 89>>) }

(* ------------------------------ std::stoi ----------------------------- *)
IsSpace(c) == c \in {32, 9, 10, 11, 12, 13}
IsDigit(c) == c \in 48..57

\* index of the first character at or after i that is no white space
\* (Len(s) + 1 if there is none)
SkipSpaces(s, i) ==
    CHOOSE j \in i..(Len(s) + 1) :
        /\ j = Len(s) + 1 \/ ~IsSpace(s[j])
        /\ \A k \in i..(j - 1) : IsSpace(s[k])

\* index of the first character at or after i that is no digit
SkipDigits(s, i) ==
    CHOOSE j \in i..(Len(s) + 1) :
        /\ j = Len(s) + 1 \/ ~IsDigit(s[j])
        /\ \A k \in i..(j - 1) : IsDigit(s[k])

\* the value of the digits s[i..e], or -1 when it exceeds IntMax
RECURSIVE DigitsValue(_, _, _)
DigitsValue(s, i, e) ==
    IF e < i THEN 0
    ELSE LET r == DigitsValue(s, i, e - 1)
             d == s[e] - 48
         IN  IF r = -1 \/ r > (IntMax - d) \div 10 THEN -1 ELSE r * 10 + d

\* std::stoi: [ok |-> TRUE, val |-> n], or ok = FALSE when it throws
\* std::invalid_argument (no digits) or std::out_of_range
Stoi(str) ==
    LET s == Chars(str)
        b == SkipSpaces(s, 1)
        neg == b <= Len(s) /\ s[b] = 45
        d == IF b <= Len(s) /\ s[b] \in {43, 45} THEN b + 1 ELSE b
        e == SkipDigits(s, d)
        mag == DigitsValue(s, d, e - 1)
        isMin == /\ neg
                 /\ DigitsValue(s, d, e - 2) = IntMax \div 10
                 /\ s[e - 1] - 48 = (IntMax % 10) + 1
    IN  IF e = d THEN [ok |-> FALSE, val |-> 0]
        ELSE IF mag = -1 THEN
            IF isMin THEN [ok |-> TRUE, val |-> 0 - IntMax - 1]
            ELSE [ok |-> FALSE, val |-> 0]
        ELSE [ok |-> TRUE, val |-> IF neg THEN 0 - mag ELSE mag]

ToU16(n) == n % U16

(* ------------------------- timestamp formatting ----------------------- *)
Pad2(n) == << 48 + ((n \div 10) % 10), 48 + (n % 10) >>
Pad3(n) == << 48 + ((n \div 100) % 10), 48 + ((n \div 10) % 10), 48 + (n % 10) >>

\* local date of the modelled run: 2024-01-01 (the run stays within the day)
S_date == <<50, 48, 50, 52, 45, 48, 49, 45, 48, 49>>

\* "%Y-%m-%d %H:%M:%S" of the instant t (milliseconds after local midnight),
\* then "." and the millisecond remainder of the same instant, width 3, fill '0'
GetCurrentTimestamp(t) ==
    LET secs == t \div 1000
        ms == t % 1000
    IN  Str(S_date \o <<SP>> \o Pad2((secs \div 3600) % 24) \o <<58>>
            \o Pad2((secs \div 60) % 60) \o <<58>> \o Pad2(secs % 60)
            \o <<46>> \o Pad3(ms))

\* GetCurrentTimestamp() + " " + name_
Message(t, name) == Cat(Cat(GetCurrentTimestamp(t), Run(SP, 1)), name)

(* ------------------------------ C strings ----------------------------- *)
\* char buffer[1024] = {0} after read() stored the bytes `data`
Buffer(data) == Cat(data, Run(NUL, BufSize - SLen(data)))

\* the characters operator<<(ostream&, const char*) takes from the array:
\* up to the first NUL; without a NUL inside the array it runs past its end
\* and takes the bytes `stray` that happen to follow
CStrOf(buf, stray) ==
    LET z == CHOOSE i \in 1..(Len(buf) + 1) :
                 /\ i = Len(buf) + 1 \/ buf[i][1] = NUL
                 /\ \A k \in 1..(i - 1) : buf[k][1] # NUL
    IN  IF z = Len(buf) + 1 THEN Cat(buf, stray) ELSE SubSeq(buf, 1, z - 1)

\* the same, with the array evaluated once
CStr(array, stray) == CHOOSE r \in { CStrOf(buf, stray) : buf \in {array} } : TRUE

(* ------------------------------- state -------------------------------- *)
VARIABLES
    argv,        \* argv[p]: the command line of process p
    pc,          \* pc[p]: where the main thread of process p stands
    exitStatus,  \* exitStatus[p]: -1 while p runs, else the status main returned
    cerr,        \* cerr[p]: the distinct lines p wrote to standard error
    now,         \* the wall clock, milliseconds after local midnight
    port_,       \* Server::port_ / Client::port_ of process p
    name_,       \* Client::name_
    period_,     \* Client::period_
    sock,        \* the socket owned by `sock` in Client::Start (0: none)
    wake,        \* the instant the client's sleep_for ends
    sent,        \* sent[p]: the instants at which a send of p succeeded
    listener,    \* server_fd: "none", "created", "bound", "listening", "closed"
    backlog,     \* established connections not yet returned by accept
    sockOwner,   \* the process that created socket k (-1: not created)
    sockState,   \* the client end of k: "free", "open", "closed"
    connected,   \* whether connect succeeded on k
    wire,        \* the bytes sent on k
    hpc,         \* where the handler thread of connection k stands
    client_fd,   \* the server end of k: "none", "open", "closed"
    closes,      \* how often the handler called close(client_fd)
    bytes_read,  \* the handler's bytes_read
    buffer,      \* the bytes read() stored in the handler's buffer
    exc,         \* the message of the exception in flight in the handler
    file_mutex_, \* the handler holding Server::file_mutex_ (0: free)
    log_file,    \* the handler's ofstream: [open, pending]: whether it is
                 \* open and the characters it holds unwritten
    logtxt,      \* the content of log.txt
    appended,    \* the handlers whose append completed, in order of completion
    acquired     \* the handlers that locked file_mutex_, in order of locking

vars == << argv, pc, exitStatus, cerr, now, port_, name_, period_, sock, wake,
           sent, listener, backlog, sockOwner, sockState, connected, wire, hpc,
           client_fd, closes, bytes_read, buffer, exc, file_mutex_, log_file,
           logtxt, appended, acquired >>

procVars == << argv, pc, exitStatus, port_, name_, period_ >>
clientVars == << sock, wake, sent >>
netVars == << sockOwner, sockState, connected, wire >>
handlerVars == << hpc, client_fd, closes, bytes_read, buffer, exc, file_mutex_,
                  log_file, logtxt, appended, acquired >>

NoStream == [open |-> FALSE, pending |-> <<>>]

Init ==
    /\ argv \in { a \in [Procs -> ServerArgVs \cup ClientArgVs] :
                    /\ a[ServerProc] \in ServerArgVs
                    /\ \A c \in Clients : a[c] \in ClientArgVs }
    /\ pc = [p \in Procs |-> "main"]
    /\ exitStatus = [p \in Procs |-> -1]
    /\ cerr = [p \in Procs |-> {}]
    /\ now = StartTime
    /\ port_ = [p \in Procs |-> 0]
    /\ name_ = [p \in Procs |-> <<>>]
    /\ period_ = [p \in Procs |-> 0]
    /\ sock = [p \in Procs |-> 0]
    /\ wake = [p \in Procs |-> 0]
    /\ sent = [p \in Procs |-> <<>>]
    /\ listener = "none"
    /\ backlog = <<>>
    /\ sockOwner = [k \in Socks |-> -1]
    /\ sockState = [k \in Socks |-> "free"]
    /\ connected = [k \in Socks |-> FALSE]
    /\ wire = [k \in Socks |-> <<>>]
    /\ hpc = [k \in Socks |-> "none"]
    /\ client_fd = [k \in Socks |-> "none"]
    /\ closes = [k \in Socks |-> 0]
    /\ bytes_read = [k \in Socks |-> 0]
    /\ buffer = [k \in Socks |-> <<>>]
    /\ exc = [k \in Socks |-> ""]
    /\ file_mutex_ = 0
    /\ log_file = [k \in Socks |-> NoStream]
    /\ logtxt = <<>>
    /\ appended = <<>>
    /\ acquired = <<>>

(* ------------------------------- main --------------------------------- *)
\* Dispatch without the tests of argc: the mode alone decides
Dispatch_NoArgc(av) ==
    IF Len(av) < 2 THEN [mode |-> "throw", what |-> "Usage"]
    ELSE IF av[2] = S_server THEN
        [mode |-> "server",
         port |-> IF Len(av) >= 3 /\ Stoi(av[3]).ok
                  THEN ToU16(Stoi(av[3]).val) ELSE 0]
    ELSE IF av[2] = S_client THEN
        [mode |-> "client", name |-> IF Len(av) >= 3 THEN av[3] ELSE <<>>,
         port |-> IF Len(av) >= 4 /\ Stoi(av[4]).ok
                  THEN ToU16(Stoi(av[4]).val) ELSE 0,
         period |-> IF Len(av) >= 5 /\ Stoi(av[5]).ok
                    THEN Stoi(av[5]).val ELSE 1]
    ELSE [mode |-> "throw", what |-> "Invalid arguments"]

\* what main does with its arguments: the mode it starts, or the exception
Dispatch(av) ==
    IF Len(av) < 2 THEN [mode |-> "throw", what |-> "Usage"]
    ELSE IF av[2] = S_server /\ Len(av) = 3 THEN
        IF Stoi(av[3]).ok
        THEN [mode |-> "server", port |-> ToU16(Stoi(av[3]).val)]
        ELSE [mode |-> "throw", what |-> "stoi"]
    ELSE IF av[2] = S_client /\ Len(av) = 5 THEN
        IF Stoi(av[4]).ok /\ Stoi(av[5]).ok
        THEN [mode |-> "client", name |-> av[3],
              port |-> ToU16(Stoi(av[4]).val), period |-> Stoi(av[5]).val]
        ELSE [mode |-> "throw", what |-> "stoi"]
    ELSE [mode |-> "throw", what |-> "Invalid arguments"]

\* main up to the call of Start, or to `return 1` in one of its catch clauses
Main(p) ==
    /\ pc[p] = "main"
    /\ LET d == Dispatch(argv[p]) IN
         CASE d.mode = "server" ->
                /\ pc' = [pc EXCEPT ![p] = "s_create"]
                /\ port_' = [port_ EXCEPT ![p] = d.port]
                /\ UNCHANGED << exitStatus, cerr, name_, period_ >>
           [] d.mode = "client" ->
                /\ pc' = [pc EXCEPT ![p] = "create"]
                /\ port_' = [port_ EXCEPT ![p] = d.port]
                /\ name_' = [name_ EXCEPT ![p] = d.name]
                /\ period_' = [period_ EXCEPT ![p] = d.period]
                /\ UNCHANGED << exitStatus, cerr >>
           [] OTHER ->
                /\ pc' = [pc EXCEPT ![p] = "exited"]
                /\ exitStatus' = [exitStatus EXCEPT ![p] = 1]
                /\ cerr' = [cerr EXCEPT ![p] = @ \cup {
                       IF d.what = "stoi" THEN "Standard exception"
                       ELSE IF d.what = "Usage" THEN "Error: Usage"
                       ELSE "Error: Invalid arguments"}]
                /\ UNCHANGED << port_, name_, period_ >>
    /\ UNCHANGED << argv, now, clientVars, listener, backlog, netVars,
                    handlerVars >>

\* the status main returns once Start has returned
StartReturnStatus == 0

\* Start returned (it caught the exception itself): main returns and the
\* process ends, which closes every descriptor it still holds
MainReturn(p) ==
    /\ pc[p] \in {"s_ret", "c_ret"}
    /\ pc' = [pc EXCEPT ![p] = "exited"]
    /\ exitStatus' = [exitStatus EXCEPT ![p] = StartReturnStatus]
    /\ sockState' = [k \in Socks |->
           IF sockOwner[k] = p /\ sockState[k] = "open" THEN "closed"
           ELSE sockState[k]]
    /\ listener' = IF p = ServerProc /\ listener # "none" THEN "closed"
                   ELSE listener
    /\ UNCHANGED << argv, cerr, now, port_, name_, period_, clientVars,
                    backlog, sockOwner, connected, wire, handlerVars >>

(* ----------------------- the unique_ptr deleter ----------------------- *)
\* std::unique_ptr<int, decltype(&close)> hands the deleter the int* it owns,
\* not the descriptor the int holds: whether that call closes the socket is
\* left to the value of the pointer.  TRUE: the socket is closed.
DeleterOutcomes == {TRUE, FALSE}

(* --------------------------- Server::Start ---------------------------- *)
\* ServerThrow with the error written but not thrown: Start goes on into the
\* accept loop
ServerThrow_Ignored(what, fd) ==
    /\ cerr' = [cerr EXCEPT ![ServerProc] = @ \cup {what}]
    /\ pc' = [pc EXCEPT ![ServerProc] = "accept"]
    /\ listener' = fd

\* the catch clause of Server::Start: the exception unwinds server_fd (when
\* it exists), the error is written and Start returns
ServerThrow(what, fd) ==
    /\ cerr' = [cerr EXCEPT ![ServerProc] = @ \cup {what}]
    /\ pc' = [pc EXCEPT ![ServerProc] = "s_ret"]
    /\ \E d \in DeleterOutcomes :
           listener' = IF d /\ fd # "none" THEN "closed" ELSE fd

ServerCreateSocket ==
    /\ pc[ServerProc] = "s_create"
    /\ \/ /\ listener' = "created"
          /\ pc' = [pc EXCEPT ![ServerProc] = "s_bind"]
          /\ UNCHANGED cerr
       \/ ServerThrow("Server error: Failed to create socket", "none")
    /\ UNCHANGED << argv, exitStatus, now, port_, name_, period_, clientVars,
                    backlog, netVars, handlerVars >>

BindSocket ==
    /\ pc[ServerProc] = "s_bind"
    /\ \/ /\ listener' = "bound"
          /\ pc' = [pc EXCEPT ![ServerProc] = "s_listen"]
          /\ UNCHANGED cerr
       \/ ServerThrow("Server error: Failed to bind", listener)
    /\ UNCHANGED << argv, exitStatus, now, port_, name_, period_, clientVars,
                    backlog, netVars, handlerVars >>

ListenOnSocket ==
    /\ pc[ServerProc] = "s_listen"
    /\ \/ /\ listener' = "listening"
          /\ pc' = [pc EXCEPT ![ServerProc] = "accept"]
          /\ UNCHANGED cerr
       \/ ServerThrow("Server error: Failed to listen", listener)
    /\ UNCHANGED << argv, exitStatus, now, port_, name_, period_, clientVars,
                    backlog, netVars, handlerVars >>

(* ---------------------- Server::AcceptConnections --------------------- *)
\* AcceptOk with join() in place of detach(): the loop accepts again only
\* when the handler it started has ended
AcceptOk_Join ==
    /\ pc[ServerProc] = "accept"
    /\ backlog # <<>>
    /\ \A j \in Socks : hpc[j] \in {"none", "done"}
    /\ LET k == Head(backlog) IN
         /\ client_fd' = [client_fd EXCEPT ![k] = "open"]
         /\ hpc' = [hpc EXCEPT ![k] = "read"]
    /\ backlog' = Tail(backlog)
    /\ UNCHANGED << procVars, cerr, now, clientVars, listener, netVars, closes,
                    bytes_read, buffer, exc, file_mutex_, log_file, logtxt,
                    appended, acquired >>

\* accept returns a connection: a detached thread running HandleClient is
\* started for it and the loop goes on
AcceptOk ==
    /\ pc[ServerProc] = "accept"
    /\ backlog # <<>>
    /\ LET k == Head(backlog) IN
         /\ client_fd' = [client_fd EXCEPT ![k] = "open"]
         /\ hpc' = [hpc EXCEPT ![k] = "read"]
    /\ backlog' = Tail(backlog)
    /\ UNCHANGED << procVars, cerr, now, clientVars, listener, netVars, closes,
                    bytes_read, buffer, exc, file_mutex_, log_file, logtxt,
                    appended,
                    acquired >>

\* AcceptFail with a throw in place of `continue`: Start returns
AcceptFail_Throw ==
    /\ pc[ServerProc] = "accept"
    /\ cerr' = [cerr EXCEPT ![ServerProc] =
                   @ \cup {"Failed to accept connection"}]
    /\ pc' = [pc EXCEPT ![ServerProc] = "s_ret"]
    /\ UNCHANGED << argv, exitStatus, port_, name_, period_, now, clientVars,
                    listener, backlog, netVars, handlerVars >>

\* accept returns -1: the error is written and the loop goes on
AcceptFail ==
    /\ pc[ServerProc] = "accept"
    /\ cerr' = [cerr EXCEPT ![ServerProc] =
                   @ \cup {"Failed to accept connection"}]
    /\ UNCHANGED << procVars, now, clientVars, listener, backlog, netVars,
                    handlerVars >>

(* ------------------------ Server::HandleClient ------------------------ *)
Min(a, b) == IF a <= b THEN a ELSE b

\* the counts one read() of at most BufSize bytes may return on connection k:
\* all that was sent (up to BufSize), or only the first byte when the rest has
\* not arrived yet; 0 when the peer closed without sending
ReadCounts(k) ==
    IF wire[k] # <<>> THEN {Min(SLen(wire[k]), BufSize), 1}
    ELSE IF sockState[k] = "closed" THEN {0}
    ELSE {}

\* HReadOk with the test `bytes_read <= 0`: end of file is thrown as a read
\* error
HReadOk_ZeroIsError(k) ==
    /\ hpc[k] = "read"
    /\ \E n \in ReadCounts(k) :
         /\ bytes_read' = [bytes_read EXCEPT ![k] = n]
         /\ buffer' = [buffer EXCEPT ![k] = Take(wire[k], n)]
         /\ hpc' = [hpc EXCEPT ![k] = IF n = 0 THEN "close" ELSE "lock"]
         /\ cerr' = IF n > 0 THEN cerr
                    ELSE [cerr EXCEPT ![ServerProc] = @ \cup
                       {"Client handling error: Failed to read from client socket"}]
    /\ UNCHANGED << procVars, now, clientVars, listener, backlog,
                    netVars, client_fd, closes, exc, file_mutex_, log_file,
                    logtxt, appended, acquired >>

\* read returned n >= 0
HReadOk(k) ==
    /\ hpc[k] = "read"
    /\ \E n \in ReadCounts(k) :
         /\ bytes_read' = [bytes_read EXCEPT ![k] = n]
         /\ buffer' = [buffer EXCEPT ![k] = Take(wire[k], n)]
    /\ hpc' = [hpc EXCEPT ![k] = "lock"]
    /\ UNCHANGED << procVars, cerr, now, clientVars, listener, backlog,
                    netVars, client_fd, closes, exc, file_mutex_, log_file,
                    logtxt, appended,
                    acquired >>

\* HReadErr with close(client_fd) inside the try block: the thread ends with
\* the connection open
HReadErr_NoClose(k) ==
    /\ hpc[k] = "read"
    /\ bytes_read' = [bytes_read EXCEPT ![k] = -1]
    /\ cerr' = [cerr EXCEPT ![ServerProc] = @ \cup
           {"Client handling error: Failed to read from client socket"}]
    /\ hpc' = [hpc EXCEPT ![k] = "done"]
    /\ UNCHANGED << procVars, now, clientVars, listener, backlog, netVars,
                    client_fd, closes, buffer, exc, file_mutex_, log_file,
                    logtxt, appended,
                    acquired >>

\* HReadErr without the try block: the exception leaves the thread function
\* and std::terminate ends the server process
HReadErr_Terminate(k) ==
    /\ hpc[k] = "read"
    /\ bytes_read' = [bytes_read EXCEPT ![k] = -1]
    /\ pc' = [pc EXCEPT ![ServerProc] = "exited"]
    /\ exitStatus' = [exitStatus EXCEPT ![ServerProc] = 134]
    /\ listener' = "closed"
    /\ UNCHANGED << argv, cerr, port_, name_, period_, now, clientVars,
                    backlog, netVars, hpc, client_fd, closes, buffer, exc,
                    file_mutex_, log_file, logtxt, appended,
                    acquired >>

\* HReadErr without the throw: the error is written and the handler goes on
\* to the append
HReadErr_Proceed(k) ==
    /\ hpc[k] = "read"
    /\ bytes_read' = [bytes_read EXCEPT ![k] = -1]
    /\ cerr' = [cerr EXCEPT ![ServerProc] = @ \cup
           {"Client handling error: Failed to read from client socket"}]
    /\ hpc' = [hpc EXCEPT ![k] = "lock"]
    /\ UNCHANGED << procVars, now, clientVars, listener, backlog, netVars,
                    client_fd, closes, buffer, exc, file_mutex_, log_file,
                    logtxt, appended, acquired >>

\* read returned -1: the exception goes straight to the catch clause
HReadErr(k) ==
    /\ hpc[k] = "read"
    /\ bytes_read' = [bytes_read EXCEPT ![k] = -1]
    /\ cerr' = [cerr EXCEPT ![ServerProc] = @ \cup
           {"Client handling error: Failed to read from client socket"}]
    /\ hpc' = [hpc EXCEPT ![k] = "close"]
    /\ UNCHANGED << procVars, now, clientVars, listener, backlog, netVars,
                    client_fd, closes, buffer, exc, file_mutex_, log_file,
                    logtxt, appended,
                    acquired >>

\* HLock with a lock that does not wait for its holder
HLock_NoExclusion(k) ==
    /\ hpc[k] = "lock"
    /\ file_mutex_' = k
    /\ acquired' = Append(acquired, k)
    /\ hpc' = [hpc EXCEPT ![k] = "open"]
    /\ UNCHANGED << procVars, cerr, now, clientVars, listener, backlog,
                    netVars, client_fd, closes, bytes_read, buffer, exc,
                    log_file, logtxt, appended >>

\* HLock with the lock_guard constructed ahead of the read
HLock_BeforeRead(k) ==
    /\ hpc[k] = "read"
    /\ file_mutex_ = 0
    /\ file_mutex_' = k
    /\ acquired' = Append(acquired, k)
    /\ UNCHANGED << procVars, cerr, now, clientVars, listener, backlog,
                    netVars, hpc, client_fd, closes, bytes_read, buffer, exc,
                    log_file, logtxt, appended >>

\* std::lock_guard<std::mutex> lock(file_mutex_)
HLock(k) ==
    /\ hpc[k] = "lock"
    /\ file_mutex_ = 0
    /\ file_mutex_' = k
    /\ acquired' = Append(acquired, k)
    /\ hpc' = [hpc EXCEPT ![k] = "open"]
    /\ UNCHANGED << procVars, cerr, now, clientVars, listener, backlog,
                    netVars, client_fd, closes, bytes_read, buffer, exc,
                    log_file, logtxt, appended >>

\* HOpen with a mutex locked by hand in place of the lock_guard: the throw
\* skips the unlock
HOpen_FailHolding(k) ==
    /\ hpc[k] = "open"
    /\ \/ /\ log_file' = [log_file EXCEPT ![k].open = TRUE]
          /\ hpc' = [hpc EXCEPT ![k] = "insert"]
          /\ UNCHANGED cerr
       \/ /\ cerr' = [cerr EXCEPT ![ServerProc] = @ \cup
                 {"Client handling error: Failed to open log file"}]
          /\ hpc' = [hpc EXCEPT ![k] = "close"]
          /\ UNCHANGED log_file
    /\ UNCHANGED << procVars, now, clientVars, listener, backlog,
                    netVars, client_fd, closes, bytes_read, buffer, exc,
                    file_mutex_, logtxt, appended, acquired >>

\* HOpen without std::ios::app: opening the file empties it
HOpen_Trunc(k) ==
    /\ hpc[k] = "open"
    /\ \/ /\ log_file' = [log_file EXCEPT ![k].open = TRUE]
          /\ logtxt' = <<>>
          /\ hpc' = [hpc EXCEPT ![k] = "insert"]
          /\ UNCHANGED exc
       \/ /\ exc' = [exc EXCEPT ![k] = "Failed to open log file"]
          /\ hpc' = [hpc EXCEPT ![k] = "unlock"]
          /\ UNCHANGED << log_file, logtxt >>
    /\ UNCHANGED << procVars, cerr, now, clientVars, listener, backlog,
                    netVars, client_fd, closes, bytes_read, buffer,
                    file_mutex_, appended, acquired >>

\* std::ofstream log_file("log.txt", std::ios::app), and the throw when the
\* file is not open
HOpen(k) ==
    /\ hpc[k] = "open"
    /\ \/ /\ log_file' = [log_file EXCEPT ![k].open = TRUE]
          /\ hpc' = [hpc EXCEPT ![k] = "insert"]
          /\ UNCHANGED exc
       \/ /\ exc' = [exc EXCEPT ![k] = "Failed to open log file"]
          /\ hpc' = [hpc EXCEPT ![k] = "unlock"]
          /\ UNCHANGED log_file
    /\ UNCHANGED << procVars, cerr, now, clientVars, listener, backlog,
                    netVars, client_fd, closes, bytes_read, buffer,
                    file_mutex_, logtxt, appended,
                    acquired >>

\* log_file << buffer: the stream keeps the characters or writes them out
HInsert(k) ==
    /\ hpc[k] = "insert"
    /\ \E stray \in Stray, through \in BOOLEAN :
         LET text == CStr(Buffer(buffer[k]), stray) IN
           /\ log_file' = [log_file EXCEPT
                  ![k].pending = IF through THEN <<>> ELSE text]
           /\ logtxt' = IF through THEN Cat(logtxt, text) ELSE logtxt
    /\ hpc' = [hpc EXCEPT ![k] = "endl"]
    /\ UNCHANGED << procVars, cerr, now, clientVars, listener, backlog,
                    netVars, client_fd, closes, bytes_read, buffer, exc,
                    file_mutex_, appended,
                    acquired >>

\* << std::endl: the newline, and the stream is flushed to the file
HEndl(k) ==
    /\ hpc[k] = "endl"
    /\ logtxt' = Cat(Cat(logtxt, log_file[k].pending), Run(NL, 1))
    /\ log_file' = [log_file EXCEPT ![k].pending = <<>>]
    /\ appended' = Append(appended, k)
    /\ hpc' = [hpc EXCEPT ![k] = "fclose"]
    /\ UNCHANGED << procVars, cerr, now, clientVars, listener, backlog,
                    netVars, client_fd, closes, bytes_read, buffer, exc,
                    file_mutex_, acquired >>

\* the end of the try block: log_file is destroyed, which closes the file
HCloseFile(k) ==
    /\ hpc[k] = "fclose"
    /\ log_file' = [log_file EXCEPT ![k].open = FALSE]
    /\ hpc' = [hpc EXCEPT ![k] = "unlock"]
    /\ UNCHANGED << procVars, cerr, now, clientVars, listener, backlog,
                    netVars, client_fd, closes, bytes_read, buffer, exc,
                    file_mutex_, logtxt, appended,
                    acquired >>

\* HUnlock with a lock that is never unlocked
HUnlock_Keep(k) ==
    /\ hpc[k] = "unlock"
    /\ cerr' = IF exc[k] = "" THEN cerr
               ELSE [cerr EXCEPT ![ServerProc] = @ \cup
                        {"Client handling error: Failed to open log file"}]
    /\ exc' = [exc EXCEPT ![k] = ""]
    /\ hpc' = [hpc EXCEPT ![k] = "close"]
    /\ UNCHANGED << procVars, now, clientVars, listener, backlog, netVars,
                    client_fd, closes, bytes_read, buffer, file_mutex_,
                    log_file, logtxt, appended, acquired >>

\* lock is destroyed, which unlocks file_mutex_; an exception in flight then
\* reaches the catch clause
HUnlock(k) ==
    /\ hpc[k] = "unlock"
    /\ file_mutex_' = 0
    /\ cerr' = IF exc[k] = "" THEN cerr
               ELSE [cerr EXCEPT ![ServerProc] = @ \cup
                        {"Client handling error: Failed to open log file"}]
    /\ exc' = [exc EXCEPT ![k] = ""]
    /\ hpc' = [hpc EXCEPT ![k] = "close"]
    /\ UNCHANGED << procVars, now, clientVars, listener, backlog, netVars,
                    client_fd, closes, bytes_read, buffer, log_file, logtxt,
                    appended,
                    acquired >>

\* close(client_fd), and the thread ends
HClose(k) ==
    /\ hpc[k] = "close"
    /\ client_fd' = [client_fd EXCEPT ![k] = "closed"]
    /\ closes' = [closes EXCEPT ![k] = @ + 1]
    /\ hpc' = [hpc EXCEPT ![k] = "done"]
    /\ UNCHANGED << procVars, cerr, now, clientVars, listener, backlog,
                    netVars, bytes_read, buffer, exc, file_mutex_, log_file,
                    logtxt, appended,
                    acquired >>

(* --------------------------- Client::Start ---------------------------- *)
\* the socket number the next successful socket() call returns (0: none left)
FreeSock ==
    IF \E k \in Socks : sockOwner[k] = -1
    THEN CHOOSE k \in Socks : sockOwner[k] = -1 /\ \A j \in 1..(k - 1) : sockOwner[j] # -1
    ELSE 0

\* `sock` goes out of scope: its deleter runs on the pointer it owns
DestroySock(c, d) ==
    /\ sockState' = [k \in Socks |->
           IF k = sock[c] /\ d THEN "closed" ELSE sockState[k]]
    /\ sock' = [sock EXCEPT ![c] = 0]

\* ClientThrow with the catch clause inside the loop: the next cycle begins
ClientThrow_Retry(c, what) ==
    /\ \E d \in DeleterOutcomes : DestroySock(c, d)
    /\ cerr' = [cerr EXCEPT ![c] = @ \cup {what}]
    /\ pc' = [pc EXCEPT ![c] = "create"]

\* the catch clause of Client::Start: the exception leaves the loop, `sock`
\* is destroyed on the way, the error is written and Start returns
ClientThrow(c, what) ==
    /\ \E d \in DeleterOutcomes : DestroySock(c, d)
    /\ cerr' = [cerr EXCEPT ![c] = @ \cup {what}]
    /\ pc' = [pc EXCEPT ![c] = "c_ret"]

ClientCreateSocket(c) ==
    /\ pc[c] = "create"
    /\ \/ /\ FreeSock # 0
          /\ sock' = [sock EXCEPT ![c] = FreeSock]
          /\ sockOwner' = [sockOwner EXCEPT ![FreeSock] = c]
          /\ sockState' = [sockState EXCEPT ![FreeSock] = "open"]
          /\ pc' = [pc EXCEPT ![c] = "connect"]
          /\ UNCHANGED cerr
       \/ /\ ClientThrow(c, "Client error: Socket creation error")
          /\ UNCHANGED sockOwner
    /\ UNCHANGED << argv, exitStatus, now, port_, name_, period_, wake, sent,
                    listener, backlog, connected, wire, handlerVars >>

\* connect to 127.0.0.1:port_ succeeds when a server listens on that port and
\* its accept queue has room
ConnectToServer(c) ==
    /\ pc[c] = "connect"
    /\ \/ /\ listener = "listening"
          /\ port_[ServerProc] = port_[c]
          /\ Len(backlog) < Backlog
          /\ connected' = [connected EXCEPT ![sock[c]] = TRUE]
          /\ backlog' = Append(backlog, sock[c])
          /\ pc' = [pc EXCEPT ![c] = "send"]
          /\ UNCHANGED << cerr, sock, sockState >>
       \/ /\ ClientThrow(c, "Client error: Connection failed")
          /\ UNCHANGED << connected, backlog >>
    /\ UNCHANGED << argv, exitStatus, now, port_, name_, period_, wake, sent,
                    listener, sockOwner, wire, handlerVars >>

\* send of GetCurrentTimestamp() + " " + name_, then sleep_for begins
SendMessage(c) ==
    /\ pc[c] = "send"
    /\ \/ /\ wire' = [wire EXCEPT ![sock[c]] = Message(now, name_[c])]
          /\ wake' = [wake EXCEPT ![c] = now + period_[c] * 1000]
          /\ sent' = [sent EXCEPT ![c] = Append(@, now)]
          /\ pc' = [pc EXCEPT ![c] = "sleep"]
          /\ UNCHANGED << cerr, sock, sockState >>
       \/ /\ ClientThrow(c, "Client error: Failed to send message")
          /\ UNCHANGED << wire, wake, sent >>
    /\ UNCHANGED << argv, exitStatus, now, port_, name_, period_, listener,
                    backlog, sockOwner, connected, handlerVars >>

\* ClientWake with a sleep_for that returns at once
ClientWake_NoSleep(c) ==
    /\ pc[c] = "sleep"
    /\ \E d \in DeleterOutcomes : DestroySock(c, d)
    /\ pc' = [pc EXCEPT ![c] = "create"]
    /\ UNCHANGED << argv, exitStatus, cerr, now, port_, name_, period_, wake,
                    sent, listener, backlog, sockOwner, connected, wire,
                    handlerVars >>

\* sleep_for returns; the loop body ends, which destroys `sock`, and the
\* next iteration begins
ClientWake(c) ==
    /\ pc[c] = "sleep"
    /\ now >= wake[c]
    /\ \E d \in DeleterOutcomes : DestroySock(c, d)
    /\ pc' = [pc EXCEPT ![c] = "create"]
    /\ UNCHANGED << argv, exitStatus, cerr, now, port_, name_, period_, wake, sent,
                    listener, backlog, sockOwner, connected, wire,
                    handlerVars >>

(* ------------------------------ the clock ----------------------------- *)
Tick ==
    /\ \E d \in TickSteps :
         /\ now + d <= StartTime + MaxTicks * 1000
         /\ now' = now + d
    /\ UNCHANGED << procVars, cerr, clientVars, listener, backlog, netVars,
                    handlerVars >>

(* --------------------------- the specification ------------------------ *)
Next ==
    \/ \E p \in Procs : Main(p)
    \/ \E p \in Procs : MainReturn(p)
    \/ ServerCreateSocket
    \/ BindSocket
    \/ ListenOnSocket
    \/ AcceptOk
    \/ AcceptFail
    \/ \E k \in Socks : HReadOk(k)
    \/ \E k \in Socks : HReadErr(k)
    \/ \E k \in Socks : HLock(k)
    \/ \E k \in Socks : HOpen(k)
    \/ \E k \in Socks : HInsert(k)
    \/ \E k \in Socks : HEndl(k)
    \/ \E k \in Socks : HCloseFile(k)
    \/ \E k \in Socks : HUnlock(k)
    \/ \E k \in Socks : HClose(k)
    \/ \E c \in Clients : ClientCreateSocket(c)
    \/ \E c \in Clients : ConnectToServer(c)
    \/ \E c \in Clients : SendMessage(c)
    \/ \E c \in Clients : ClientWake(c)
    \/ Tick

Spec == Init /\ [][Next]_vars

\* the steps of the handler thread of connection k
HandleClient(k) ==
    \/ HReadOk(k) \/ HReadErr(k) \/ HLock(k) \/ HOpen(k) \/ HInsert(k)
    \/ HEndl(k) \/ HCloseFile(k) \/ HUnlock(k) \/ HClose(k)

\* threads are scheduled fairly and a blocking call returns once it can: the
\* accept loop takes a pending connection, a handler thread that can take
\* its next step takes it
FairSpec ==
    /\ Spec
    /\ WF_vars(AcceptOk)
    /\ \A k \in Socks : WF_vars(HandleClient(k))

(* ======================== properties of the model ===================== *)
Range(q) == { q[i] : i \in 1..Len(q) }

\* the complete lines of the file f after the characters `cur` of the
\* line that is being read
RECURSIVE LinesFrom(_, _)
LinesOf(f, cur) ==
    IF f = <<>> THEN <<>>
    ELSE IF f[1][1] = NL
         THEN <<cur>> \o LinesFrom(Run(NL, f[1][2] - 1) \o Tail(f), <<>>)
         ELSE LinesFrom(Tail(f), Cat(cur, <<f[1]>>))

\* the same, with each argument evaluated once
LinesFrom(file, line) ==
    CHOOSE r \in { LinesOf(f, cur) : f \in {file}, cur \in {line} } : TRUE

\* the file split by newline
Lines(f) == LinesFrom(f, <<>>)

EndsWithNewline(f) == f # <<>> /\ f[Len(f)][1] = NL

Live(k) == hpc[k] \notin {"none", "done"}

\* C1: mutual exclusion of the log critical section.  At most one handler
\* has log.txt open, and a handler that opens, writes or closes the file
\* (or has it open) holds file_mutex_ while it does.
C1_LogMutualExclusion ==
    /\ Cardinality({ k \in Socks : log_file[k].open }) <= 1
    /\ \A k \in Socks :
         /\ log_file[k].open => file_mutex_ = k
         /\ hpc[k] \in {"open", "insert", "endl", "fclose"} => file_mutex_ = k
         /\ log_file[k].pending # <<>> => file_mutex_ = k

\* C1 witness: one handler has the file open while another one, whose read
\* has returned, waits for the lock
C1_Witness ==
    \E k, j \in Socks :
        k # j /\ log_file[k].open /\ hpc[k] = "endl" /\ hpc[j] = "lock"

\* C2: the log split by newline holds one line per completed append, in
\* order, each line being exactly the bytes its handler read; a handler
\* that terminated after a successful read and a successful open appended
\* exactly once.  (Stated while no append is half written.)
C2_OneLinePerAppend ==
    (\A k \in Socks : hpc[k] # "endl") =>
        /\ Lines(logtxt) = [i \in 1..Len(appended) |-> buffer[appended[i]]]
        /\ logtxt = <<>> \/ EndsWithNewline(logtxt)
        /\ \A i, j \in 1..Len(appended) : appended[i] = appended[j] => i = j

\* C3: a message that fits the read buffer and arrives in one read is
\* appended byte for byte, followed only by the newline: when the append of
\* handler k completes, the log ends with a line that is the message sent.
C3_RoundTrip ==
    \A k \in Socks :
        ( /\ hpc[k] = "fclose"
          /\ wire[k] # <<>>
          /\ SLen(wire[k]) <= BufSize
          /\ bytes_read[k] = SLen(wire[k]) )
        => LET ls == Lines(logtxt)
           IN  /\ EndsWithNewline(logtxt)
               /\ ls # <<>>
               /\ ls[Len(ls)] = wire[k]

\* C4: a handler closes its connection exactly once before it terminates,
\* whichever way it leaves the try block, and not before
C4_ConnectionClosedOnce ==
    \A k \in Socks :
        /\ hpc[k] = "done" => client_fd[k] = "closed" /\ closes[k] = 1
        /\ Live(k) => client_fd[k] = "open" /\ closes[k] = 0
        /\ hpc[k] = "none" => client_fd[k] = "none" /\ closes[k] = 0

\* C4 witness: one handler ended after a read error and another one after
\* the log file could not be opened
C4_Witness ==
    \E k, j \in Socks :
        /\ hpc[k] = "done" /\ bytes_read[k] = -1
        /\ hpc[j] = "done" /\ bytes_read[j] >= 0 /\ j \notin Range(appended)

ReadErrorSeen == \E k \in Socks : bytes_read[k] = -1
InBacklog(j) == j \in Range(backlog)

\* C5: a read error in one handler leaves the accept loop running, and a
\* connection that is pending afterwards with its message sent is accepted
\* and handled: its message is appended to the log, unless its own read
\* fails or the log file cannot be opened for it.
C5_ServerSurvivesReadError ==
    /\ [](ReadErrorSeen => pc[ServerProc] = "accept")
    /\ \A j \in Socks :
         (ReadErrorSeen /\ InBacklog(j) /\ wire[j] # <<>>)
           ~> ( \/ j \in Range(appended) /\ hpc[j] = "done"
                \/ bytes_read[j] = -1
                \/ exc[j] # "" )

\* C5 witness: a handler ended after a read error and a later connection,
\* its message already sent, waits to be accepted
C5_Witness ==
    \E k, j \in Socks :
        /\ hpc[k] = "done" /\ bytes_read[k] = -1
        /\ k < j /\ InBacklog(j) /\ wire[j] # <<>>

AcceptFailed == "Failed to accept connection" \in cerr[ServerProc]

\* C6: a failing accept starts no handler, leaves the log and the pending
\* connections alone and does not end the server; after accept failures the
\* loop is still at accept and takes the next pending connection.
C6_AcceptFailureContinues ==
    /\ [][ (~AcceptFailed /\ AcceptFailed') =>
             /\ hpc' = hpc
             /\ client_fd' = client_fd
             /\ logtxt' = logtxt
             /\ appended' = appended
             /\ backlog' = backlog
             /\ exitStatus' = exitStatus
             /\ pc'[ServerProc] = "accept" ]_vars
    /\ [](AcceptFailed =>
             /\ pc[ServerProc] = "accept"
             /\ exitStatus[ServerProc] = -1
             /\ backlog # <<>> => ENABLED AcceptOk)

\* C6 witness: after an accept failure one connection has been served and
\* another one is pending
C6_Witness ==
    AcceptFailed /\ backlog # <<>> /\ appended # <<>>

ClientErrors ==
    { "Client error: Socket creation error",
      "Client error: Connection failed",
      "Client error: Failed to send message" }

ClientFailed(c) == cerr[c] \cap ClientErrors # {}
OwnedBy(c) == { k \in Socks : sockOwner[k] = c }

\* C7: after the first failure of socket creation, connect or send the
\* client loop has ended: the client holds no socket in `sock`, and from then
\* on it creates no socket, connects none and sends nothing.
C7_ClientStopsAtFirstFailure ==
    /\ [](\A c \in Clients :
            ClientFailed(c) => pc[c] \in {"c_ret", "exited"} /\ sock[c] = 0)
    /\ [][ \A c \in Clients :
             ClientFailed(c) =>
               /\ OwnedBy(c)' = OwnedBy(c)
               /\ \A k \in OwnedBy(c) :
                    connected'[k] = connected[k] /\ wire'[k] = wire[k] ]_vars

\* C7 witness: the client failed in its second cycle, after a cycle that
\* sent its message, and its process has ended
C7_Witness ==
    \E c \in Clients, k, j \in Socks :
        /\ ClientFailed(c) /\ pc[c] = "exited"
        /\ k # j /\ sockOwner[k] = c /\ sockOwner[j] = c
        /\ wire[k] # <<>>

\* C8: the client's connection is closed before the sleep begins: while the
\* client sleeps it holds no open socket.
C8_ClosedBeforeSleep ==
    \A c \in Clients :
        pc[c] = "sleep" => \A k \in OwnedBy(c) : sockState[k] # "open"

ServerErrors ==
    { "Server error: Failed to create socket",
      "Server error: Failed to bind",
      "Server error: Failed to listen" }

SetupFailed == cerr[ServerProc] \cap ServerErrors # {}

\* C9: after a failure of socket creation, bind or listen the server has
\* stopped: it is not in the accept loop and never listens, no connection
\* was or is accepted, no handler exists and the log is untouched.
C9_SetupFailureStops ==
    SetupFailed =>
        /\ pc[ServerProc] \in {"s_ret", "exited"}
        /\ listener # "listening"
        /\ backlog = <<>>
        /\ \A k \in Socks : hpc[k] = "none" /\ client_fd[k] = "none"
        /\ logtxt = <<>> /\ appended = <<>>

\* C9 witness: listen failed, the server process ended, and a client that
\* tried to connect was refused
C9_Witness ==
    /\ "Server error: Failed to listen" \in cerr[ServerProc]
    /\ pc[ServerProc] = "exited"
    /\ \E c \in Clients : "Client error: Connection failed" \in cerr[c]

\* C10: a server process that hit a setup error exits with status 1.
C10_SetupErrorExitsOne ==
    (SetupFailed /\ pc[ServerProc] = "exited") => exitStatus[ServerProc] = 1

\* an argument vector main rejects by its shape: no mode, `server` without
\* exactly one parameter, `client` without exactly three, an unknown mode
InvalidArgv(av) ==
    \/ Len(av) < 2
    \/ /\ Len(av) >= 2
       /\ \/ av[2] = S_server /\ Len(av) # 3
          \/ av[2] = S_client /\ Len(av) # 5
          \/ av[2] \notin {S_server, S_client}

\* an argument vector of the right shape with a port or period that is no
\* number
BadNumber(av) ==
    /\ ~InvalidArgv(av)
    /\ \/ av[2] = S_server /\ ~Stoi(av[3]).ok
       \/ av[2] = S_client /\ ~(Stoi(av[4]).ok /\ Stoi(av[5]).ok)

ArgumentErrors == { "Error: Usage", "Error: Invalid arguments" }

\* the command lines of the model that are invalid in one of these ways
RejectedArgVs ==
    { av \in ServerArgVs \cup ClientArgVs : InvalidArgv(av) \/ BadNumber(av) }

\* C11: a process started with an invalid argument vector does nothing but
\* end: it writes the usage or argument error (the conversion error for a
\* port that is no number), exits with status 1, and at no time creates a
\* socket (no listening socket, no client socket).
C11_InvalidArgsExit ==
    \A p \in Procs :
        argv[p] \in RejectedArgVs =>
            /\ pc[p] \in {"main", "exited"}
            /\ OwnedBy(p) = {} /\ sock[p] = 0
            /\ p = ServerProc => listener = "none"
            /\ pc[p] = "main" => exitStatus[p] = -1 /\ cerr[p] = {}
            /\ pc[p] = "exited" =>
                  /\ exitStatus[p] = 1
                  /\ cerr[p] = IF BadNumber(argv[p]) THEN {"Standard exception"}
                               ELSE IF Len(argv[p]) < 2 THEN {"Error: Usage"}
                               ELSE {"Error: Invalid arguments"}
                  /\ InvalidArgv(argv[p]) => cerr[p] \subseteq ArgumentErrors

\* C11 witness: a process started as `client` with four parameters has
\* ended while the server of the same run listens
C11_Witness ==
    \E c \in Clients :
        /\ Len(argv[c]) = 6 /\ argv[c][2] = S_client
        /\ pc[c] = "exited" /\ exitStatus[c] = 1
        /\ listener = "listening"

\* a client whose loop runs and in which no operation has failed
Running(c) ==
    /\ pc[c] \in {"create", "connect", "send", "sleep"}
    /\ ~ClientFailed(c)
    /\ period_[c] > 0

\* the time the run has lasted, milliseconds
Elapsed == now - StartTime

\* C12 as stated: over the window from the start of the run to now, a
\* running client with period P has sent at least floor(elapsed / P)
\* messages, successive sends lying at least P seconds apart.
C12_AtLeastFloorSends ==
    \A c \in Clients :
        Running(c) =>
            /\ Len(sent[c]) >= Elapsed \div (period_[c] * 1000)
            /\ \A i \in 1..(Len(sent[c]) - 1) :
                   sent[c][i + 1] - sent[c][i] >= period_[c] * 1000

\* C12 amended: successive sends of a client with period P lie at least P
\* seconds apart (a whole sleep_for lies between them), so that over a
\* window of length elapsed the client sends at most floor(elapsed / P) + 1
\* messages; the number of messages has no lower bound.
C12_SendsPeriodApart ==
    \A c \in Clients :
        period_[c] > 0 =>
            /\ \A i \in 1..(Len(sent[c]) - 1) :
                   sent[c][i + 1] - sent[c][i] >= period_[c] * 1000
            /\ Len(sent[c]) <= Elapsed \div (period_[c] * 1000) + 1
            /\ pc[c] = "sleep" =>
                   wake[c] = sent[c][Len(sent[c])] + period_[c] * 1000
            /\ (pc[c] \in {"create", "connect", "send"} /\ sent[c] # <<>>) =>
                   now >= sent[c][Len(sent[c])] + period_[c] * 1000

\* C12 witness: a client has sent twice, with the sleep between the sends
C12_Witness ==
    \E c \in Clients :
        period_[c] > 0 /\ Len(sent[c]) = 2 /\ pc[c] = "sleep"

ReadFailed(k) == bytes_read[k] = -1

\* C13: a handler reads once: it leaves its read for good, and only that step
\* sets bytes_read and the buffer.  A handler whose read failed goes straight
\* to close(client_fd): it never locks file_mutex_, never opens the file,
\* appends nothing, and ends with its connection closed; the step of the
\* failed read and every later step of that handler leave log.txt as it is.
C13_OneReadNoAppendOnError ==
    /\ [](\A k \in Socks :
            ReadFailed(k) =>
                /\ hpc[k] \in {"close", "done"}
                /\ k \notin Range(acquired) /\ k \notin Range(appended)
                /\ file_mutex_ # k
                /\ log_file[k] = NoStream
                /\ buffer[k] = <<>>
                /\ hpc[k] = "done" => client_fd[k] = "closed" /\ closes[k] = 1)
    /\ [][ \A k \in Socks :
             /\ hpc[k] \notin {"none", "read"} => hpc'[k] # "read"
             /\ (bytes_read'[k] # bytes_read[k] \/ buffer'[k] # buffer[k]) =>
                    hpc[k] = "read" /\ hpc'[k] # "read"
             /\ (hpc[k] = "read" /\ ReadFailed(k)') =>
                    logtxt' = logtxt /\ file_mutex_' = file_mutex_
             /\ (ReadFailed(k) /\ hpc'[k] # hpc[k]) =>
                    logtxt' = logtxt /\ file_mutex_' = file_mutex_ ]_vars

\* C13 witness: a handler whose read failed has ended, after another handler
\* appended its line
C13_Witness ==
    \E k, j \in Socks :
        /\ ReadFailed(k) /\ hpc[k] = "done" /\ client_fd[k] = "closed"
        /\ j \in Range(appended) /\ logtxt # <<>>

\* the handler of k could not open log.txt: the exception is in flight, or
\* the handler left the critical section without an append
OpenFailed(k) ==
    \/ exc[k] = "Failed to open log file"
    \/ /\ hpc[k] \in {"close", "done"}
       /\ k \in Range(acquired)
       /\ k \notin Range(appended)

\* C14: a handler that cannot open log.txt drops its message and nothing
\* else: it never has the file open and appends nothing, the step that fails
\* and its later steps leave log.txt as it is, the server stays in its accept
\* loop, the handler goes on to release file_mutex_ and to close its
\* connection, and a handler that waits for the lock afterwards gets it and
\* appends its line unless its own open fails.
C14_OpenFailureDropsOneMessage ==
    /\ [](\A k \in Socks :
            OpenFailed(k) =>
                /\ log_file[k] = NoStream
                /\ k \notin Range(appended)
                /\ pc[ServerProc] = "accept" /\ exitStatus[ServerProc] = -1
                /\ hpc[k] \in {"unlock", "close", "done"}
                /\ hpc[k] \in {"close", "done"} => file_mutex_ # k
                /\ hpc[k] = "done" => client_fd[k] = "closed" /\ closes[k] = 1)
    /\ [][ \A k \in Socks :
             ((OpenFailed(k) \/ OpenFailed(k)') /\ hpc'[k] # hpc[k]) =>
                 logtxt' = logtxt /\ appended' = appended ]_vars
    /\ \A k \in Socks :
          OpenFailed(k) ~>
              (hpc[k] = "done" /\ file_mutex_ # k /\ client_fd[k] = "closed")
    /\ \A k, j \in Socks :
          (OpenFailed(k) /\ hpc[j] = "lock") ~>
              (j \in Range(appended) \/ OpenFailed(j))

\* C14 witness: the first handler that took the lock could not open the
\* file and has ended; the second one appended its line
C14_Witness ==
    /\ Len(acquired) = 2
    /\ OpenFailed(acquired[1]) /\ hpc[acquired[1]] = "done"
    /\ appended = <<acquired[2]>>

\* the handler of k waits in read for a peer that is connected and has sent
\* nothing
Stalled(k) == hpc[k] = "read" /\ wire[k] = <<>> /\ sockState[k] = "open"

\* C15: file_mutex_ is locked only by a handler whose read has returned
\* without error; a handler that has not been started, is in read or waits
\* for the lock holds neither the mutex nor the file.  So the holder of the
\* mutex never waits for a peer: it can always take its next step, and when
\* the mutex is free every handler waiting for it can lock it, whatever
\* handlers are in read.
C15_NoLockWhileReading ==
    /\ [](\A k \in Socks :
            /\ hpc[k] \in {"none", "read", "lock"} =>
                   file_mutex_ # k /\ log_file[k] = NoStream
            /\ file_mutex_ = k =>
                   /\ hpc[k] \in {"open", "insert", "endl", "fclose", "unlock"}
                   /\ bytes_read[k] >= 0
                   /\ ENABLED HandleClient(k)
            /\ (hpc[k] = "lock" /\ file_mutex_ = 0) => ENABLED HLock(k))
    /\ [][ \A k \in Socks :
             (file_mutex_ # k /\ file_mutex_' = k) =>
                 hpc[k] = "lock" /\ bytes_read[k] >= 0 ]_vars

\* C15 witness: one handler waits in read for a peer that sent nothing
\* while another handler is in the middle of its append
C15_Witness ==
    \E k, j \in Socks :
        /\ Stalled(k)
        /\ hpc[j] = "endl" /\ file_mutex_ = j /\ log_file[j].open

LiveHandlers == { k \in Socks : Live(k) }

\* C16: the accept loop does not wait for handlers.  Whenever the loop is
\* at accept and a connection is pending, accepting it is enabled, however
\* many handlers are in read or wait for the lock; the step that starts a
\* handler leaves the loop at accept and every other handler and the mutex as
\* they are, and the number of live handlers grows by one (nothing caps it).
C16_AcceptNeverWaits ==
    /\ []((pc[ServerProc] = "accept" /\ backlog # <<>>) => ENABLED AcceptOk)
    /\ [][ \A k \in Socks :
             (hpc[k] = "none" /\ hpc'[k] # "none") =>
                 /\ hpc'[k] = "read"
                 /\ \A j \in Socks \ {k} : hpc'[j] = hpc[j]
                 /\ file_mutex_' = file_mutex_
                 /\ pc'[ServerProc] = "accept"
                 /\ LiveHandlers' = LiveHandlers \cup {k} ]_vars

\* C16 witness: every connection of the run has a live handler, each in
\* read or waiting for the lock, and the loop is at accept
C16_Witness ==
    /\ pc[ServerProc] = "accept"
    /\ LiveHandlers = Socks
    /\ \A k \in Socks : hpc[k] \in {"read", "lock", "open"}
    /\ \E k \in Socks : hpc[k] = "read"
    /\ \E k \in Socks : hpc[k] = "open"

\* a is the beginning of b: the runs of a but the last are runs of b, and
\* the last run of a is the beginning of the run of b at its place
IsPrefix(a, b) ==
    \/ a = <<>>
    \/ /\ Len(a) <= Len(b)
       /\ \A i \in 1..(Len(a) - 1) : a[i] = b[i]
       /\ a[Len(a)][1] = b[Len(a)][1]
       /\ a[Len(a)][2] <= b[Len(a)][2]

InAppended(k) == k \in Range(appended)

\* no read of the run filled the whole buffer
NoFullBuffer == \A k \in Socks : SLen(buffer[k]) < BufSize

\* C17: log.txt only grows at its end, and only by the handler that locked
\* file_mutex_ last and still holds it; the handlers that appended did so in
\* the order in which they locked the mutex, whatever the order in which
\* their connections were accepted.  (While every buffer kept its NUL, the
\* lines of the file are the messages of the appending handlers in that
\* order.)
C17_AppendOnlyInLockOrder ==
    /\ [][ /\ logtxt' = logtxt \/ IsPrefix(logtxt, logtxt')
           /\ logtxt' # logtxt =>
                 /\ file_mutex_ # 0 /\ file_mutex_' = file_mutex_
                 /\ acquired' = acquired
                 /\ log_file[file_mutex_].open ]_vars
    /\ [](file_mutex_ # 0 =>
             acquired # <<>> /\ acquired[Len(acquired)] = file_mutex_)
    /\ [](appended = SelectSeq(acquired, InAppended))
    /\ []((NoFullBuffer /\ \A k \in Socks : hpc[k] # "endl") =>
             Lines(logtxt) =
                 [i \in 1..Len(appended) |-> buffer[appended[i]]])

\* C17 witness: the connection accepted second locked the mutex first; both
\* handlers appended, the second connection's line first
C17_Witness ==
    /\ Len(appended) = 2 /\ acquired = appended
    /\ appended[1] > appended[2]
    /\ NoFullBuffer
    /\ Lines(logtxt) = << buffer[appended[1]], buffer[appended[2]] >>
    /\ buffer[appended[1]] # buffer[appended[2]]

OpenSocks(c) == { k \in OwnedBy(c) : sockState[k] = "open" }

\* C18: the client does not reuse a connection and holds at most one open
\* socket: a message is sent on the socket created in the same iteration,
\* on which nothing was sent before, and the socket of an iteration is
\* closed before the socket of the next one is created.
C18_OneFreshSocketAtATime ==
    \A c \in Clients :
        /\ Cardinality(OpenSocks(c)) <= 1
        /\ sock[c] # 0 => OpenSocks(c) = {sock[c]}
        /\ pc[c] = "send" => sock[c] # 0 /\ wire[sock[c]] = <<>>
        /\ pc[c] = "create" => OpenSocks(c) = {}

\* C19: file_mutex_ is unlocked on both ways out of the critical section
\* before close(client_fd): a handler that is about to close or has ended
\* does not hold it, and the step that leaves the critical section frees it.
\* While a handler waits for the lock some handler can take a step (no
\* deadlock), and with fair scheduling a handler whose read succeeded gets
\* the lock and every handler whose read has returned ends.
C19_LockReleasedHandlersTerminate ==
    /\ [](\A k \in Socks :
            hpc[k] \in {"none", "read", "lock", "close", "done"} =>
                file_mutex_ # k)
    /\ [][ \A k \in Socks :
             (hpc[k] = "unlock" /\ hpc'[k] # "unlock") =>
                 hpc'[k] = "close" /\ file_mutex_ = k /\ file_mutex_' = 0 ]_vars
    /\ []((\E k \in Socks : hpc[k] = "lock") =>
             \E j \in Socks : hpc[j] # "read" /\ ENABLED HandleClient(j))
    /\ \A k \in Socks : (hpc[k] = "lock") ~> (file_mutex_ = k)
    /\ \A k \in Socks : (hpc[k] \notin {"none", "read"}) ~> (hpc[k] = "done")

\* C19 witness: every handler of the run has ended and the mutex is free,
\* one handler having left the critical section after its append and one
\* after a failed open
C19_Witness ==
    /\ file_mutex_ = 0
    /\ \A k \in Socks : hpc[k] = "done"
    /\ Range(acquired) = Socks
    /\ \E k \in Socks : OpenFailed(k)
    /\ \E j \in Socks : j \in Range(appended)

\* the read of handler k returned 0 bytes
ReadNothing(k) == hpc[k] \notin {"none", "read"} /\ bytes_read[k] = 0

\* C20: a read that returns 0 is no error: the step writes nothing to
\* standard error and takes the handler to the lock with an empty message;
\* the handler then appends like any other, and what it appends is an empty
\* line (a newline alone).
C20_EmptyReadAppendsEmptyLine ==
    /\ [][ \A k \in Socks :
             (hpc[k] = "read" /\ hpc'[k] # "read" /\ bytes_read'[k] = 0) =>
                 /\ hpc'[k] = "lock"
                 /\ buffer'[k] = <<>>
                 /\ cerr' = cerr ]_vars
    /\ [](\A k \in Socks :
            ReadNothing(k) =>
                /\ buffer[k] = <<>> /\ wire[k] = <<>>
                /\ hpc[k] \in {"lock", "open", "insert", "endl", "fclose",
                                "unlock", "close", "done"}
                /\ hpc[k] = "endl" => log_file[k].pending = <<>>
                /\ hpc[k] = "fclose" =>
                      /\ appended # <<>> /\ appended[Len(appended)] = k
                      /\ EndsWithNewline(logtxt)
                      /\ Lines(logtxt)[Len(Lines(logtxt))] = <<>>)
    /\ [][ \A k \in Socks :
             (ReadNothing(k) /\ hpc[k] = "endl" /\ hpc'[k] = "fclose") =>
                 logtxt' = Cat(logtxt, Run(NL, 1)) ]_vars

\* C20 witness: the peer closed without sending, the handler read 0 bytes
\* and appended; the log is one empty line
C20_Witness ==
    \E k \in Socks :
        /\ ReadNothing(k) /\ hpc[k] = "done" /\ sockState[k] = "closed"
        /\ appended = <<k>>
        /\ logtxt = Run(NL, 1)
        /\ Lines(logtxt) = << <<>> >>

====
